---- MODULE Spec2Model ----
(***************************************************************************)
(* TrialMatch AI (streamlit_app.py): the eligibility evaluator             *)
(* match_patient_to_trial, the two aggregate loops of the patient-centric  *)
(* and trial-centric views, load_trials, extract_criteria_from_pdf and     *)
(* interpret_trial_criteria_llm with the upload view that reads its        *)
(* result.                                                                 *)
(*                                                                         *)
(* Python values are modelled as follows.  A dict is a function whose      *)
(* DOMAIN is its key set; a list is a sequence; None is the record NoneVal.*)
(* A value whose Python type the code inspects (isinstance, truthiness)    *)
(* carries a tag "kind".                                                   *)
(***************************************************************************)
EXTENDS Integers, Sequences, FiniteSets, TLC

VARIABLES
    pc,                 \* position of the running function / script
    st_errors,          \* messages shown with st.error, in order
    patient,            \* argument of match_patient_to_trial
    trial_criteria,     \* argument of match_patient_to_trial
    result,             \* (is_match, reasons) returned by match_patient_to_trial
    patients,           \* the patient table, one row per patient, in file order
    trials,             \* the dict returned by load_trials, in insertion order
    selected,           \* the selectbox choice of the running view
    idx,                \* loop position of the running view
    matched_trials,     \* list built by the patient-centric view
    matched_patients,   \* list built by the trial-centric view
    fs,                 \* what open()/json.load() do for each configured file
    load_result,        \* outcome of load_trials
    pdf,                \* pages of the opened PDF, each page's extract_text()
    extracted,          \* (inclusion, exclusion) returned by extract_criteria_from_pdf
    service,            \* what openai.ChatCompletion.create does
    llm_result,         \* outcome of interpret_trial_criteria_llm
    shown               \* what the upload view wrote for raw inclusion / exclusion

vars == <<pc, st_errors, patient, trial_criteria, result, patients, trials,
          selected, idx, matched_trials, matched_patients, fs, load_result,
          pdf, extracted, service, llm_result, shown>>

(***************************************************************************)
(* Bounds of the model.                                                    *)
(***************************************************************************)
MaxList == 2        \* longest stage / mutation list in a criteria document
MaxPS == 4          \* largest performance status value drawn
MaxPatients == 2    \* most rows of the patient table
MaxTokens == 4      \* longest service response, in tokens
MaxPages == 2       \* most pages of a PDF
MaxLines == 2       \* most lines of a page

(***************************************************************************)
(* Python helpers.                                                         *)
(***************************************************************************)
NoneVal == [kind |-> "none"]
Str(s) == [kind |-> "str", str |-> s]
List(l) == [kind |-> "list", list |-> l]

\* d.get(k, default)
Get(d, k, default) == IF k \in DOMAIN d THEN d[k] ELSE default

\* x in l, for a list l
InList(x, l) == \E i \in 1..Len(l) : l[i] = x

\* bool(v) for None, a str and a list
Truthy(v) ==
    CASE v.kind = "none" -> FALSE
      [] v.kind = "str"  -> v.str # ""
      [] v.kind = "list" -> Len(v.list) > 0

\* the elements of a list
Range(l) == {l[i] : i \in 1..Len(l)}

SeqsUpTo(S, n) == UNION {[1..k -> S] : k \in 0..n}

Restrict(f, K) == [k \in K |-> f[k]]

(***************************************************************************)
(* Vocabularies of the patient table and the criteria documents.           *)
(***************************************************************************)
Stages == {"I", "IIIA", "IV"}
Mutations == {"EGFR", "KRAS_G12C", "none"}
PerfValues == 0..MaxPS

Patients ==
    [patient_id : {"P"}, stage : Stages, mutation_status : Mutations,
     performance_status : PerfValues]

MutationRequiredValues ==
    {Str(s) : s \in Mutations \cup {""}}
        \cup {List(l) : l \in SeqsUpTo(Mutations, MaxList)}

CriteriaKeys == {"stage", "mutation_required", "performance_status_max"}

CriteriaDocs ==
    {Restrict(full, K) :
        full \in [stage : SeqsUpTo(Stages, MaxList),
                  mutation_required : MutationRequiredValues,
                  performance_status_max : PerfValues],
        K \in SUBSET CriteriaKeys}

(***************************************************************************)
(* match_patient_to_trial.  A reason is the f-string the code appends,     *)
(* kept as the check it comes from, its fixed wording and the two values   *)
(* it interpolates.                                                        *)
(***************************************************************************)
DefaultPerformanceStatusMax == 2

StageReason(p, c) ==
    [check |-> "stage", text |-> "not in allowed stages",
     value |-> p.stage, required |-> c["stage"]]

MutationListReason(p, required) ==
    [check |-> "mutation", text |-> "not in required list",
     value |-> p.mutation_status, required |-> required.list]

MutationScalarReason(p, required) ==
    [check |-> "mutation", text |-> "does not match required",
     value |-> p.mutation_status, required |-> required.str]

PerformanceReason(p, c) ==
    [check |-> "performance_status", text |-> "exceeds max",
     value |-> p.performance_status,
     required |-> Get(c, "performance_status_max", DefaultPerformanceStatusMax)]

MeetsAllReason == [check |-> "summary", text |-> "Meets all inclusion criteria"]

\* mutant: only the first allowed stage is compared
StageFails_FirstOnly(p, c) ==
    "stage" \in DOMAIN c /\ ~(Len(c["stage"]) > 0 /\ c["stage"][1] = p.stage)

\* line 40
StageFails(p, c) == "stage" \in DOMAIN c /\ ~InList(p.stage, c["stage"])

\* line 45
MutationRequired(c) == Get(c, "mutation_required", NoneVal)

\* mutant: "if mutation_required is not None" in place of the truthiness test
MutationBlock_NotNoneGuard(p, required) ==
    IF required.kind # "none"
    THEN IF required.kind = "list"
         THEN IF ~InList(p.mutation_status, required.list)
              THEN <<MutationListReason(p, required)>>
              ELSE <<>>
         ELSE IF p.mutation_status # required.str
              THEN <<MutationScalarReason(p, required)>>
              ELSE <<>>
    ELSE <<>>

\* lines 46-54 : the reasons the mutation block appends (empty: it falls through)
MutationBlock(p, required) ==
    IF Truthy(required)
    THEN IF required.kind = "list"
         THEN IF ~InList(p.mutation_status, required.list)
              THEN <<MutationListReason(p, required)>>
              ELSE <<>>
         ELSE IF p.mutation_status # required.str
              THEN <<MutationScalarReason(p, required)>>
              ELSE <<>>
    ELSE <<>>

\* mutant: ">=" in place of ">"
PerformanceFails_AtCeiling(p, c) ==
    p.performance_status >= Get(c, "performance_status_max", DefaultPerformanceStatusMax)

\* line 57
PerformanceFails(p, c) ==
    p.performance_status > Get(c, "performance_status_max", DefaultPerformanceStatusMax)

\* mutant: every check is evaluated and every failure reported
match_patient_to_trial_AllFailures(p, c) ==
    LET failures ==
            (IF StageFails(p, c) THEN <<StageReason(p, c)>> ELSE <<>>)
                \o MutationBlock(p, MutationRequired(c))
                \o (IF PerformanceFails(p, c) THEN <<PerformanceReason(p, c)>> ELSE <<>>)
    IN  IF failures # <<>>
        THEN [is_match |-> FALSE, reasons |-> failures]
        ELSE [is_match |-> TRUE, reasons |-> <<MeetsAllReason>>]

\* mutant: the stage check reports its outcome when it passes, too
match_patient_to_trial_StagePassReason(p, c) ==
    LET stagePass ==
            IF "stage" \in DOMAIN c
            THEN <<[check |-> "stage", text |-> "in allowed stages",
                    value |-> p.stage, required |-> c["stage"]]>>
            ELSE <<>>
    IN  IF StageFails(p, c)
        THEN [is_match |-> FALSE, reasons |-> <<StageReason(p, c)>>]
        ELSE IF MutationBlock(p, MutationRequired(c)) # <<>>
        THEN [is_match |-> FALSE,
              reasons |-> stagePass \o MutationBlock(p, MutationRequired(c))]
        ELSE IF PerformanceFails(p, c)
        THEN [is_match |-> FALSE, reasons |-> stagePass \o <<PerformanceReason(p, c)>>]
        ELSE [is_match |-> TRUE, reasons |-> stagePass \o <<MeetsAllReason>>]

match_patient_to_trial(p, c) ==
    IF StageFails(p, c)
    THEN [is_match |-> FALSE, reasons |-> <<StageReason(p, c)>>]
    ELSE IF MutationBlock(p, MutationRequired(c)) # <<>>
    THEN [is_match |-> FALSE, reasons |-> MutationBlock(p, MutationRequired(c))]
    ELSE IF PerformanceFails(p, c)
    THEN [is_match |-> FALSE, reasons |-> <<PerformanceReason(p, c)>>]
    ELSE [is_match |-> TRUE, reasons |-> <<MeetsAllReason>>]

NoResult == [is_match |-> FALSE, reasons |-> <<>>]

(***************************************************************************)
(* Values of the variables a specification does not use.                   *)
(***************************************************************************)
NoPatient == [patient_id |-> "P", stage |-> "I", mutation_status |-> "none",
              performance_status |-> 0]
NoExtraction == [inclusion |-> <<>>, exclusion |-> <<>>]
NoLoad == [trials |-> <<>>, raised |-> "none"]
NoService == [kind |-> "idle"]
NoLlmResult == [raised |-> "none", structured |-> NoneVal]
NoSelection == [patient_id |-> 0, trial_file |-> ""]
NothingShown == [raw_inclusion |-> NoneVal, raw_exclusion |-> NoneVal]

matchVars == <<patient, trial_criteria, result>>
viewVars == <<patients, trials, selected, idx, matched_trials, matched_patients>>
loadVars == <<fs, load_result>>
extractVars == <<pdf, extracted>>
llmVars == <<service, llm_result, shown>>

IdleMatch == patient = NoPatient /\ trial_criteria = <<>> /\ result = NoResult
IdleViews ==
    /\ patients = <<>> /\ trials = <<>> /\ selected = NoSelection /\ idx = 0
    /\ matched_trials = <<>> /\ matched_patients = <<>>
IdleLoad == fs = <<>> /\ load_result = NoLoad
IdleExtract == pdf = <<>> /\ extracted = NoExtraction
IdleLLM == service = NoService /\ llm_result = NoLlmResult /\ shown = NothingShown

(***************************************************************************)
(* SpecMatch: one call of match_patient_to_trial on any patient row and    *)
(* any criteria document of the vocabularies.                              *)
(***************************************************************************)
InitMatch ==
    /\ pc = "match_call"
    /\ st_errors = <<>>
    /\ patient \in Patients
    /\ trial_criteria \in CriteriaDocs
    /\ result = NoResult
    /\ IdleViews /\ IdleLoad /\ IdleExtract /\ IdleLLM

Evaluate ==
    /\ pc = "match_call"
    /\ result' = match_patient_to_trial(patient, trial_criteria)
    /\ pc' = "match_done"
    /\ UNCHANGED <<st_errors, patient, trial_criteria, viewVars, loadVars,
                   extractVars, llmVars>>

NextMatch == Evaluate

SpecMatch == InitMatch /\ [][NextMatch]_vars

(***************************************************************************)
(* The eligibility rules as the data model states them, written without    *)
(* the evaluator's helpers: the claims compare the evaluator against them. *)
(***************************************************************************)
HasStage(c) == "stage" \in DOMAIN c
HasMutation(c) ==
    /\ "mutation_required" \in DOMAIN c
    /\ c["mutation_required"] \notin {Str(""), List(<<>>)}
Ceiling(c) ==
    IF "performance_status_max" \in DOMAIN c THEN c["performance_status_max"] ELSE 2

StagePasses(p, c) == HasStage(c) => p.stage \in Range(c["stage"])
MutationPasses(p, c) ==
    HasMutation(c) =>
        IF c["mutation_required"].kind = "list"
        THEN p.mutation_status \in Range(c["mutation_required"].list)
        ELSE p.mutation_status = c["mutation_required"].str
PerformancePasses(p, c) == p.performance_status <= Ceiling(c)

\* the applicable checks of a criteria document, in the fixed order
ApplicableChecks(c) ==
    (IF HasStage(c) THEN <<"stage">> ELSE <<>>)
        \o (IF HasMutation(c) THEN <<"mutation">> ELSE <<>>)
        \o <<"performance_status">>

CheckPasses(check, p, c) ==
    CASE check = "stage" -> StagePasses(p, c)
      [] check = "mutation" -> MutationPasses(p, c)
      [] check = "performance_status" -> PerformancePasses(p, c)

CheckRank(check) ==
    CASE check = "stage" -> 1
      [] check = "mutation" -> 2
      [] check = "performance_status" -> 3
      [] check = "summary" -> 4

Evaluated == pc = "match_done"

\* C1: is_match is true if and only if the stage check (when criteria has a
\* stage key), the mutation check (when mutation_required is present and
\* non-empty) and the performance-status check all pass.
C1_MatchIffAllChecksPass ==
    Evaluated =>
        (result.is_match <=>
            /\ StagePasses(patient, trial_criteria)
            /\ MutationPasses(patient, trial_criteria)
            /\ PerformancePasses(patient, trial_criteria))

\* a patient evaluated against a document with all three keys, matching
C1_Witness ==
    /\ Evaluated
    /\ DOMAIN trial_criteria = CriteriaKeys
    /\ HasMutation(trial_criteria)
    /\ result.is_match

C3_PerformanceCeiling ==
    Evaluated =>
        /\ patient.performance_status > Ceiling(trial_criteria) => ~result.is_match
        /\ (StagePasses(patient, trial_criteria)
                /\ MutationPasses(patient, trial_criteria))
               => /\ result.is_match
                      <=> patient.performance_status <= Ceiling(trial_criteria)
                  /\ ~result.is_match
                      => result.reasons[1].check = "performance_status"
        /\ \A i \in 1..Len(result.reasons) :
               result.reasons[i].check = "performance_status"
                   => /\ result.reasons[i].required = Ceiling(trial_criteria)
                      /\ result.reasons[i].value > Ceiling(trial_criteria)

\* no performance_status_max key, performance status equal to the default
\* ceiling, and the patient matches
C3_Witness ==
    /\ Evaluated
    /\ "performance_status_max" \notin DOMAIN trial_criteria
    /\ patient.performance_status = 2
    /\ HasStage(trial_criteria)
    /\ result.is_match

\* C4: for a patient who passes the stage check, a mutation reason is given
\* exactly when mutation_required is present, non-empty and not satisfied
\* (membership for a list, equality for a single value); absent, "" and []
\* leave the verdict to the performance check; and a single value V gives
\* the verdict of the singleton list [V].
C4_MutationCheck ==
    (Evaluated /\ StagePasses(patient, trial_criteria)) =>
        LET c == trial_criteria
            mutationReason ==
                \E i \in 1..Len(result.reasons) :
                    result.reasons[i].check = "mutation"
        IN  /\ ~HasMutation(c)
                => /\ ~mutationReason
                   /\ result.is_match <=> PerformancePasses(patient, c)
            /\ (HasMutation(c) /\ c["mutation_required"].kind = "list")
                => (mutationReason
                       <=> patient.mutation_status
                               \notin Range(c["mutation_required"].list))
            /\ (HasMutation(c) /\ c["mutation_required"].kind = "str")
                => /\ mutationReason
                       <=> patient.mutation_status # c["mutation_required"].str
                   /\ result.is_match =
                        match_patient_to_trial(patient,
                            [c EXCEPT !["mutation_required"] =
                                List(<<c["mutation_required"].str>>)]).is_match

\* mutation_required is the empty string and the patient matches
C4_Witness ==
    /\ Evaluated
    /\ "mutation_required" \in DOMAIN trial_criteria
    /\ trial_criteria["mutation_required"] = Str("")
    /\ patient.mutation_status = "KRAS_G12C"
    /\ result.is_match

\* the first applicable check that fails, in the fixed order
FirstFailingCheck(p, c) ==
    IF ~StagePasses(p, c) THEN "stage"
    ELSE IF ~MutationPasses(p, c) THEN "mutation"
    ELSE "performance_status"

\* C10: the reasons always hold exactly one entry: on a failure the reason
\* of the first failing check in the order stage, mutation, performance
\* status, on a match the summary "Meets all inclusion criteria".
C10_StopAtFirstFailure ==
    Evaluated =>
        /\ Len(result.reasons) = 1
        /\ ~result.is_match
               => result.reasons[1].check
                      = FirstFailingCheck(patient, trial_criteria)
        /\ result.is_match
               => result.reasons[1]
                      = [check |-> "summary", text |-> "Meets all inclusion criteria"]

\* a patient who fails the stage check and would also fail the two later ones
C10_Witness ==
    /\ Evaluated
    /\ ~StagePasses(patient, trial_criteria)
    /\ ~MutationPasses(patient, trial_criteria)
    /\ ~PerformancePasses(patient, trial_criteria)
    /\ Len(result.reasons) = 1

(***************************************************************************)
(* load_trials.  fs gives, for each configured file, what open() and       *)
(* json.load() do: the parsed document, or the exception raised.           *)
(***************************************************************************)
TrialFiles ==
    <<"egfr.json", "pd-l1.json", "kras_g12c.json", "combo.json", "early_stage.json">>

TrialDocs ==
    {[title |-> "EGFR Trial",
      criteria |-> [stage |-> <<"IIIA", "IV">>, mutation_required |-> Str("EGFR"),
                    performance_status_max |-> 1]],
     [title |-> "Early Stage Trial",
      criteria |-> [stage |-> <<"I">>]]}

Loaded(d) == [kind |-> "ok", doc |-> d]
Raises(e) == [kind |-> e]

\* FileNotFoundError is the one exception load_trials handles; open() can
\* also raise PermissionError and json.load() json.JSONDecodeError
FileOutcomes ==
    {Loaded(d) : d \in TrialDocs}
        \cup {Raises("FileNotFoundError"), Raises("PermissionError"),
              Raises("JSONDecodeError")}

FileSystems == [Range(TrialFiles) -> FileOutcomes]

NotFoundMessage(name) == <<"Trial file", name, "not found.">>

RECURSIVE LoadFrom(_, _, _, _)
LoadFrom(f, i, loaded, errors) ==
    IF i > Len(TrialFiles)
    THEN [trials |-> loaded, errors |-> errors, raised |-> "none"]
    ELSE LET trial_file == TrialFiles[i] IN
         IF f[trial_file].kind = "ok"
         THEN LoadFrom(f, i + 1,
                       Append(loaded, [file |-> trial_file, trial |-> f[trial_file].doc]),
                       errors)
         ELSE IF f[trial_file].kind = "FileNotFoundError"
         THEN LoadFrom(f, i + 1, loaded, Append(errors, NotFoundMessage(trial_file)))
         ELSE [trials |-> <<>>, errors |-> errors, raised |-> f[trial_file].kind]

load_trials(f) == LoadFrom(f, 1, <<>>, <<>>)

(***************************************************************************)
(* SpecLoad: one call of load_trials on any file system.                   *)
(***************************************************************************)
InitLoad ==
    /\ pc = "load_call"
    /\ st_errors = <<>>
    /\ fs \in FileSystems
    /\ load_result = NoLoad
    /\ IdleMatch /\ IdleViews /\ IdleExtract /\ IdleLLM

LoadTrials ==
    /\ pc = "load_call"
    /\ load_result' = [trials |-> load_trials(fs).trials,
                       raised |-> load_trials(fs).raised]
    /\ st_errors' = st_errors \o load_trials(fs).errors
    /\ pc' = IF load_trials(fs).raised = "none" THEN "load_returned" ELSE "load_raised"
    /\ UNCHANGED <<fs, matchVars, viewVars, extractVars, llmVars>>

NextLoad == LoadTrials

SpecLoad == InitLoad /\ [][NextLoad]_vars

\* the keys of the returned dict, in insertion order
Keys(d) == [i \in 1..Len(d) |-> d[i].file]

LoadsFine(name) == fs[name].kind = "ok"

\* C8: whichever configured files fail to load, load_trials does not abort:
\* it returns the remaining trials in configured order and has reported
\* each failed file.
C8_LoadNeverAborts ==
    pc \in {"load_returned", "load_raised"} =>
        /\ pc = "load_returned"
        /\ Keys(load_result.trials) = SelectSeq(TrialFiles, LoadsFine)
        /\ \A i \in 1..Len(TrialFiles) :
               ~LoadsFine(TrialFiles[i])
                   => InList(NotFoundMessage(TrialFiles[i]), st_errors)

(***************************************************************************)
(* The patient-centric and trial-centric views of one script run, after    *)
(* load_data and load_trials have returned.                                *)
(***************************************************************************)
RowValues ==
    {[stage |-> "IV", mutation_status |-> "EGFR", performance_status |-> 1],
     [stage |-> "I", mutation_status |-> "none", performance_status |-> 2],
     [stage |-> "IIIA", mutation_status |-> "KRAS_G12C", performance_status |-> 3]}

\* a table of n rows; patient_id is unique, here the row number
Tables ==
    {[i \in 1..Len(rows) |->
        [patient_id |-> i, stage |-> rows[i].stage,
         mutation_status |-> rows[i].mutation_status,
         performance_status |-> rows[i].performance_status]] :
     rows \in SeqsUpTo(RowValues, MaxPatients)}

\* the file systems on which load_trials returns
ReadableFileSystems ==
    [Range(TrialFiles) -> {Loaded(d) : d \in TrialDocs} \cup {Raises("FileNotFoundError")}]

\* patients[patients["patient_id"] == selected_patient].iloc[0]
PatientRow(table, id) ==
    table[CHOOSE i \in 1..Len(table) :
              /\ table[i].patient_id = id
              /\ \A j \in 1..(i - 1) : table[j].patient_id # id]

\* trials[selected_trial_file]
KeyIndex(d, key) == (CHOOSE i \in 1..Len(d) : d[i].file = key)

InitViews ==
    /\ pc = "tab1_select"
    /\ fs \in ReadableFileSystems
    /\ load_result = [trials |-> load_trials(fs).trials, raised |-> "none"]
    /\ trials = load_trials(fs).trials
    /\ st_errors = load_trials(fs).errors
    /\ patients \in Tables
    /\ selected = NoSelection
    /\ idx = 0
    /\ matched_trials = <<>>
    /\ matched_patients = <<>>
    /\ IdleMatch /\ IdleExtract /\ IdleLLM

\* lines 159-166; on an empty table .iloc[0] raises IndexError
SelectPatient ==
    /\ pc = "tab1_select"
    /\ IF Len(patients) = 0
       THEN /\ pc' = "IndexError"
            /\ UNCHANGED <<selected, idx, matched_trials>>
       ELSE /\ \E i \in 1..Len(patients) :
                  selected' = [selected EXCEPT !.patient_id = patients[i].patient_id]
            /\ matched_trials' = <<>>
            /\ idx' = 1
            /\ pc' = "tab1_loop"
    /\ UNCHANGED <<st_errors, patients, trials, matched_patients, matchVars,
                   loadVars, extractVars, llmVars>>

\* mutant: matching trials are put in front of the others
PatientCentricStep_MatchesFirst ==
    /\ pc = "tab1_loop"
    /\ idx <= Len(trials)
    /\ LET trial == trials[idx].trial
           r == match_patient_to_trial(PatientRow(patients, selected.patient_id),
                                       trial.criteria)
           entry == [trial_title |-> trial.title, is_match |-> r.is_match,
                     reasons |-> r.reasons]
       IN  matched_trials' = IF r.is_match THEN <<entry>> \o matched_trials
                             ELSE Append(matched_trials, entry)
    /\ idx' = idx + 1
    /\ UNCHANGED <<pc, st_errors, patients, trials, selected, matched_patients,
                   matchVars, loadVars, extractVars, llmVars>>

\* lines 167-173 : one iteration of "for trial_file, trial in trials.items()"
PatientCentricStep ==
    /\ pc = "tab1_loop"
    /\ idx <= Len(trials)
    /\ LET trial == trials[idx].trial
           r == match_patient_to_trial(PatientRow(patients, selected.patient_id),
                                       trial.criteria)
       IN  matched_trials' =
               Append(matched_trials,
                      [trial_title |-> trial.title, is_match |-> r.is_match,
                       reasons |-> r.reasons])
    /\ idx' = idx + 1
    /\ UNCHANGED <<pc, st_errors, patients, trials, selected, matched_patients,
                   matchVars, loadVars, extractVars, llmVars>>

\* the loop is exhausted; the script goes on to the trial-centric view
PatientCentricDone ==
    /\ pc = "tab1_loop"
    /\ idx > Len(trials)
    /\ pc' = "tab2_select"
    /\ UNCHANGED <<st_errors, patients, trials, selected, idx, matched_trials,
                   matched_patients, matchVars, loadVars, extractVars, llmVars>>

\* lines 208-215; with no trial loaded the selectbox gives None and
\* trials[None] raises KeyError
SelectTrial ==
    /\ pc = "tab2_select"
    /\ IF Len(trials) = 0
       THEN /\ pc' = "KeyError"
            /\ UNCHANGED <<selected, idx, matched_patients>>
       ELSE /\ \E i \in 1..Len(trials) :
                  selected' = [selected EXCEPT !.trial_file = trials[i].file]
            /\ matched_patients' = <<>>
            /\ idx' = 1
            /\ pc' = "tab2_loop"
    /\ UNCHANGED <<st_errors, patients, trials, matched_trials, matchVars,
                   loadVars, extractVars, llmVars>>

\* lines 216-219 : one iteration of "for _, patient in patients.iterrows()"
TrialCentricStep ==
    /\ pc = "tab2_loop"
    /\ idx <= Len(patients)
    /\ LET trial == trials[KeyIndex(trials, selected.trial_file)].trial
           r == match_patient_to_trial(patients[idx], trial.criteria)
       IN  matched_patients' =
               IF r.is_match
               THEN Append(matched_patients, patients[idx].patient_id)
               ELSE matched_patients
    /\ idx' = idx + 1
    /\ UNCHANGED <<pc, st_errors, patients, trials, selected, matched_trials,
                   matchVars, loadVars, extractVars, llmVars>>

TrialCentricDone ==
    /\ pc = "tab2_loop"
    /\ idx > Len(patients)
    /\ pc' = "views_done"
    /\ UNCHANGED <<st_errors, patients, trials, selected, idx, matched_trials,
                   matched_patients, matchVars, loadVars, extractVars, llmVars>>

NextViews ==
    \/ SelectPatient
    \/ PatientCentricStep
    \/ PatientCentricDone
    \/ SelectTrial
    \/ TrialCentricStep
    \/ TrialCentricDone

SpecViews == InitViews /\ [][NextViews]_vars

\* the trials (patients) the running loop has been through
TrialsSeen ==
    CASE pc = "tab1_select" -> 0
      [] pc = "tab1_loop" -> idx - 1
      [] OTHER -> Len(trials)

PatientsSeen ==
    CASE pc = "tab2_loop" -> idx - 1
      [] pc = "views_done" -> Len(patients)
      [] OTHER -> 0

\* the ids of the rows among the first n that match the criteria, in row order
RECURSIVE MatchingIds(_, _, _)
MatchingIds(table, n, criteria) ==
    IF n = 0 THEN <<>>
    ELSE MatchingIds(table, n - 1, criteria)
             \o (IF match_patient_to_trial(table[n], criteria).is_match
                 THEN <<table[n].patient_id>> ELSE <<>>)

\* C5: at every point of the patient-centric loop matched_trials holds one
\* {trial_title, is_match, reasons} entry per trial gone through, matching or
\* not, in the order of the trials dict; at every point of the trial-centric
\* loop matched_patients holds the ids of exactly the matching patients gone
\* through, in table order.
C5_InputOrderPreserved ==
    /\ pc \in {"tab1_loop", "tab2_select", "tab2_loop", "views_done", "KeyError"}
           => /\ Len(matched_trials) = TrialsSeen
              /\ \A i \in 1..TrialsSeen :
                     LET r == match_patient_to_trial(
                                  PatientRow(patients, selected.patient_id),
                                  trials[i].trial.criteria)
                     IN  matched_trials[i] =
                             [trial_title |-> trials[i].trial.title,
                              is_match |-> r.is_match, reasons |-> r.reasons]
    /\ pc \in {"tab2_loop", "views_done"}
           => matched_patients =
                  MatchingIds(patients, PatientsSeen,
                              trials[KeyIndex(trials, selected.trial_file)].trial.criteria)

\* both views are through; the patient-centric list has a non-matching trial
\* followed by a matching one, and the trial-centric list skipped a patient
C5_Witness ==
    /\ pc = "views_done"
    /\ \E i, j \in 1..Len(matched_trials) :
           i < j /\ ~matched_trials[i].is_match /\ matched_trials[j].is_match
    /\ Len(matched_patients) > 0
    /\ Len(matched_patients) < Len(patients)

(***************************************************************************)
(* json.loads on the content of the service's response.  The content is a  *)
(* sequence of tokens; the grammar covers objects, arrays and numbers:     *)
(*     value  ::= 1 | [ ] | [ value {, value} ] | { } | { member {, member} }*)
(*     member ::= key value        (a key token is a string and its colon) *)
(* and json.loads raises JSONDecodeError unless one value spans the whole  *)
(* content.  "Here" is a word of prose.                                    *)
(***************************************************************************)
KeyTokens == {"\"raw_inclusion\":", "\"raw_exclusion\":"}
Tokens == {"{", "}", "[", "]", ",", "1", "Here"} \cup KeyTokens

KeyName(tok) ==
    CASE tok = "\"raw_inclusion\":" -> "raw_inclusion"
      [] tok = "\"raw_exclusion\":" -> "raw_exclusion"

Number(n) == [kind |-> "int", int |-> n]
Dict(d) == [kind |-> "dict", dict |-> d]
EmptyDict == Dict(<<>>)

ParseFail == [ok |-> FALSE, value |-> NoneVal, next |-> 0]
ParseOk(v, n) == [ok |-> TRUE, value |-> v, next |-> n]

\* d[k] = v on a dict
SetItem(d, k, v) == [x \in DOMAIN d \cup {k} |-> IF x = k THEN v ELSE d[x]]

At(t, i) == IF i \in 1..Len(t) THEN t[i] ELSE "<end>"

RECURSIVE ParseValue(_, _), ParseElements(_, _, _), ParseMembers(_, _, _)
ParseValue(t, i) ==
    CASE At(t, i) = "1" -> ParseOk(Number(1), i + 1)
      [] At(t, i) = "[" ->
            IF At(t, i + 1) = "]" THEN ParseOk(List(<<>>), i + 2)
            ELSE ParseElements(t, i + 1, <<>>)
      [] At(t, i) = "{" ->
            IF At(t, i + 1) = "}" THEN ParseOk(EmptyDict, i + 2)
            ELSE ParseMembers(t, i + 1, <<>>)
      [] OTHER -> ParseFail

ParseElements(t, i, acc) ==
    LET v == ParseValue(t, i) IN
    IF ~v.ok THEN ParseFail
    ELSE IF At(t, v.next) = "," THEN ParseElements(t, v.next + 1, Append(acc, v.value))
    ELSE IF At(t, v.next) = "]" THEN ParseOk(List(Append(acc, v.value)), v.next + 1)
    ELSE ParseFail

ParseMembers(t, i, acc) ==
    IF At(t, i) \notin KeyTokens THEN ParseFail
    ELSE LET v == ParseValue(t, i + 1) IN
         IF ~v.ok THEN ParseFail
         ELSE IF At(t, v.next) = ","
         THEN ParseMembers(t, v.next + 1, SetItem(acc, KeyName(t[i]), v.value))
         ELSE IF At(t, v.next) = "}"
         THEN ParseOk(Dict(SetItem(acc, KeyName(t[i]), v.value)), v.next + 1)
         ELSE ParseFail

\* ok = FALSE stands for json.JSONDecodeError
json_loads(t) ==
    LET r == ParseValue(t, 1) IN
    IF r.ok /\ r.next = Len(t) + 1 THEN [ok |-> TRUE, value |-> r.value]
    ELSE [ok |-> FALSE, value |-> NoneVal]

(***************************************************************************)
(* interpret_trial_criteria_llm and the upload view that calls it.         *)
(* service is what openai.ChatCompletion.create does on this call: it      *)
(* returns a response with some content, or raises.                        *)
(***************************************************************************)
ServiceErrors == {"APIConnectionError", "Timeout", "AuthenticationError"}

ServiceOutcomes ==
    {[kind |-> "responds", content |-> t] : t \in SeqsUpTo(Tokens, MaxTokens)}
        \cup {[kind |-> "raises", error |-> e] : e \in ServiceErrors}

ParseFailureMessage == "Failed to parse JSON from AI output."

\* mutant: json.loads is called outside any try
interpret_trial_criteria_llm_NoTry(svc) ==
    IF svc.kind = "raises"
    THEN [raised |-> svc.error, structured |-> NoneVal, errors |-> <<>>]
    ELSE LET parsed == svc.content IN
         IF json_loads(parsed).ok
         THEN [raised |-> "none", structured |-> json_loads(parsed).value,
               errors |-> <<>>]
         ELSE [raised |-> "JSONDecodeError", structured |-> NoneVal, errors |-> <<>>]

\* lines 105-120; the call at line 105 stands in no try block
interpret_trial_criteria_llm(svc) ==
    IF svc.kind = "raises"
    THEN [raised |-> svc.error, structured |-> NoneVal, errors |-> <<>>]
    ELSE LET parsed == svc.content IN
         IF json_loads(parsed).ok
         THEN [raised |-> "none", structured |-> json_loads(parsed).value,
               errors |-> <<>>]
         ELSE [raised |-> "none", structured |-> EmptyDict,
               errors |-> <<ParseFailureMessage>>]

InitLLM ==
    /\ pc = "llm_call"
    /\ st_errors = <<>>
    /\ service \in ServiceOutcomes
    /\ llm_result = NoLlmResult
    /\ shown = NothingShown
    /\ IdleMatch /\ IdleViews /\ IdleLoad /\ IdleExtract

\* line 245
Interpret ==
    /\ pc = "llm_call"
    /\ LET r == interpret_trial_criteria_llm(service) IN
        /\ llm_result' = [raised |-> r.raised, structured |-> r.structured]
        /\ st_errors' = st_errors \o r.errors
        /\ pc' = IF r.raised = "none" THEN "llm_returned" ELSE "llm_raised"
    /\ UNCHANGED <<service, shown, matchVars, viewVars, loadVars, extractVars>>

\* lines 247-254; .get exists on a dict only
UploadViewShow ==
    /\ pc = "llm_returned"
    /\ IF llm_result.structured.kind = "dict"
       THEN /\ shown' =
                [raw_inclusion |->
                    Get(llm_result.structured.dict, "raw_inclusion", List(<<>>)),
                 raw_exclusion |->
                    Get(llm_result.structured.dict, "raw_exclusion", List(<<>>))]
            /\ pc' = "upload_shown"
       ELSE /\ pc' = "AttributeError"
            /\ UNCHANGED shown
    /\ UNCHANGED <<st_errors, service, llm_result, matchVars, viewVars, loadVars,
                   extractVars>>

NextLLM == Interpret \/ UploadViewShow

SpecLLM == InitLLM /\ [][NextLLM]_vars

NonJsonResponse == service.kind = "responds" /\ ~json_loads(service.content).ok

\* C6: on a response whose content does not parse as JSON the function does
\* not raise: it signals the parse failure and returns {}, and the caller's
\* reads of raw_inclusion and raw_exclusion give the empty defaults.
C6_NonJsonGivesEmptyModel ==
    (NonJsonResponse /\ pc # "llm_call") =>
        /\ pc \in {"llm_returned", "upload_shown"}
        /\ llm_result = [raised |-> "none", structured |-> EmptyDict]
        /\ InList(ParseFailureMessage, st_errors)
        /\ pc = "upload_shown"
               => shown = [raw_inclusion |-> List(<<>>), raw_exclusion |-> List(<<>>)]

\* prose around an object: the caller has shown the empty defaults
C6_Witness ==
    /\ service.kind = "responds"
    /\ Len(service.content) = 3
    /\ service.content[1] = "Here"
    /\ service.content[2] = "{"
    /\ pc = "upload_shown"
    /\ shown = [raw_inclusion |-> List(<<>>), raw_exclusion |-> List(<<>>)]

\* C7: when the call to the service fails, the failure never leaves
\* interpret_trial_criteria_llm as an exception: the function returns.
C7_ServiceFailureCaught ==
    (service.kind = "raises" /\ pc # "llm_call") =>
        /\ pc \in {"llm_returned", "upload_shown"}
        /\ llm_result.raised = "none"

(***************************************************************************)
(* extract_criteria_from_pdf.  A page is what page.extract_text() gives:   *)
(* None, or a text, kept as the lines text.split("\n") yields (a text is   *)
(* never zero lines; the empty text is one empty line).  A line is a       *)
(* sequence of tokens, words and blanks.                                   *)
(***************************************************************************)
Blank == " "

LineValues ==
    {<<"Inclusion", Blank, "Criteria">>,
     <<Blank, "6.2", Blank, "EXCLUSION", Blank, "CRITERIA", Blank>>,
     <<"-", Blank, "Age", Blank, ">=", Blank, "18">>,
     <<"No", Blank, "exclusion", Blank, "from", Blank, "prior", Blank, "trials">>,
     <<>>}

\* str.lower on a token
LowerToken(w) ==
    CASE w = "Inclusion" -> "inclusion"
      [] w = "Criteria" -> "criteria"
      [] w = "EXCLUSION" -> "exclusion"
      [] w = "CRITERIA" -> "criteria"
      [] w = "Age" -> "age"
      [] w = "No" -> "no"
      [] OTHER -> w

\* line.lower()
Lower(line) == [i \in 1..Len(line) |-> LowerToken(line[i])]

\* word in low : no token of the vocabulary holds a keyword as a proper part
Contains(low, word) == \E i \in 1..Len(low) : low[i] = word

\* line.strip()
RECURSIVE LStrip(_), RStrip(_)
LStrip(line) ==
    IF Len(line) > 0 /\ Head(line) = Blank THEN LStrip(Tail(line)) ELSE line
RStrip(line) ==
    IF Len(line) > 0 /\ line[Len(line)] = Blank
    THEN RStrip(SubSeq(line, 1, Len(line) - 1)) ELSE line
Strip(line) == RStrip(LStrip(line))

NonePage == [kind |-> "none", lines |-> <<>>]
TextPage(lines) == [kind |-> "text", lines |-> lines]

PageValues ==
    {NonePage}
        \cup {TextPage(l) : l \in SeqsUpTo(LineValues, MaxLines) \ {<<>>}}

Pdfs == SeqsUpTo(PageValues, MaxPages)

\* "not text": None or the empty string
NoText(page) == page.kind = "none" \/ page.lines = << <<>> >>

\* lines 76-81 over the lines of one page, from line i on
RECURSIVE ExtractLines(_, _, _)
ExtractLines(lines, i, acc) ==
    IF i > Len(lines) THEN acc
    ELSE LET line == lines[i]
             low == Lower(line)
         IN  IF Contains(low, "inclusion")
             THEN ExtractLines(lines, i + 1,
                      [acc EXCEPT !.inclusion = Append(@, Strip(line))])
             ELSE IF Contains(low, "exclusion")
             THEN ExtractLines(lines, i + 1,
                      [acc EXCEPT !.exclusion = Append(@, Strip(line))])
             ELSE ExtractLines(lines, i + 1, acc)

\* lines 71-81 over the pages, from page i on
RECURSIVE ExtractPages(_, _, _)
ExtractPages(pages, i, acc) ==
    IF i > Len(pages) THEN acc
    ELSE IF NoText(pages[i]) THEN ExtractPages(pages, i + 1, acc)
    ELSE ExtractPages(pages, i + 1, ExtractLines(pages[i].lines, 1, acc))

extract_criteria_from_pdf(pages) ==
    ExtractPages(pages, 1, [inclusion |-> <<>>, exclusion |-> <<>>])

InitExtract ==
    /\ pc = "extract_call"
    /\ st_errors = <<>>
    /\ pdf \in Pdfs
    /\ extracted = NoExtraction
    /\ IdleMatch /\ IdleViews /\ IdleLoad /\ IdleLLM

Extract ==
    /\ pc = "extract_call"
    /\ extracted' = extract_criteria_from_pdf(pdf)
    /\ pc' = "extract_done"
    /\ UNCHANGED <<st_errors, pdf, matchVars, viewVars, loadVars, llmVars>>

NextExtract == Extract

SpecExtract == InitExtract /\ [][NextExtract]_vars

(***************************************************************************)
(* The sections of a document as the extraction contract states them.      *)
(***************************************************************************)
\* the document as one sequence of lines, page after page
RECURSIVE DocumentLines(_, _)
DocumentLines(pages, i) ==
    IF i > Len(pages) THEN <<>>
    ELSE (IF pages[i].kind = "none" THEN <<>> ELSE pages[i].lines)
             \o DocumentLines(pages, i + 1)

NotBlank(w) == w # Blank

\* a bare-keyword heading, or a numbered one such as "6.2 Exclusion Criteria"
IsHeading(line, keyword) ==
    LET w == SelectSeq(Lower(line), NotBlank) IN
    \/ w = <<keyword, "criteria">>
    \/ Len(w) = 3 /\ w[1] = "6.2" /\ w[2] = keyword /\ w[3] = "criteria"

IsAnyHeading(line) == IsHeading(line, "inclusion") \/ IsHeading(line, "exclusion")

\* the section line k of the document lies in: that of the nearest heading above
RECURSIVE SectionAt(_, _)
SectionAt(doc, k) ==
    IF k = 0 THEN "none"
    ELSE IF IsHeading(doc[k], "inclusion") THEN "inclusion"
    ELSE IF IsHeading(doc[k], "exclusion") THEN "exclusion"
    ELSE SectionAt(doc, k - 1)

\* the non-empty lines of a section, in document order
RECURSIVE SectionLines(_, _, _)
SectionLines(doc, k, section) ==
    IF k = 0 THEN <<>>
    ELSE SectionLines(doc, k - 1, section)
             \o (IF /\ ~IsAnyHeading(doc[k])
                    /\ SectionAt(doc, k) = section
                    /\ Strip(doc[k]) # <<>>
                 THEN <<Strip(doc[k])>> ELSE <<>>)

\* a occurs in b as a subsequence
RECURSIVE IsSubsequence(_, _)
IsSubsequence(a, b) ==
    IF a = <<>> THEN TRUE
    ELSE IF b = <<>> THEN FALSE
    ELSE IF Head(a) = Head(b) THEN IsSubsequence(Tail(a), Tail(b))
    ELSE IsSubsequence(a, Tail(b))

\* C9: every non-empty line between the inclusion heading and the next
\* heading (or the end) is in the inclusion sequence, every such line of the
\* exclusion section in the exclusion sequence, in document order; a document
\* with no heading gives two empty sequences.
C9_WholeSectionCaptured ==
    pc = "extract_done" =>
        LET doc == DocumentLines(pdf, 1) IN
        /\ IsSubsequence(SectionLines(doc, Len(doc), "inclusion"), extracted.inclusion)
        /\ IsSubsequence(SectionLines(doc, Len(doc), "exclusion"), extracted.exclusion)
        /\ (\A k \in 1..Len(doc) : ~IsAnyHeading(doc[k]))
               => extracted = [inclusion |-> <<>>, exclusion |-> <<>>]

(***************************************************************************)
(* Spec: any one of the components above, from its initial states.         *)
(***************************************************************************)
Init == InitMatch \/ InitLoad \/ InitViews \/ InitLLM \/ InitExtract

Next == NextMatch \/ NextLoad \/ NextViews \/ NextLLM \/ NextExtract

Spec == Init /\ [][Next]_vars

====
